---- MODULE Spec2Model ----
(***************************************************************************)
(* Model of the awsflow MCP bridge: the session manager (McpManager), the  *)
(* TCP bridge (McpBridgeServer), the local pseudo-terminal session         *)
(* (McpSession) and the JSON-RPC dispatcher (McpDispatcher).               *)
(*                                                                         *)
(* The mutable state of the manager, the bridge and the sockets is kept in *)
(* one variable per field.  Handlers are written as functions from a state *)
(* record S to the state record after the handler, so that a handler that  *)
(* calls another handler (onSessionClosed -> startSession ->               *)
(* ensureBridge, close -> tryPromoteQueued -> beginSession) is one step.   *)
(***************************************************************************)
EXTENDS Integers, Sequences, FiniteSets, TLC

\* ------------------------------------------------------------------ bounds
MaxSessions == 4      \* local session ids handed out by nextSessionId++
MaxSockets == 3       \* inbound TCP connections in one run
MaxHandles == 4       \* startSession() calls made by callers in one run
MaxCap == 2           \* largest cap value a caller configures
ManagerSockets == 1   \* connections in the runs of Spec
BridgeHandles == 2    \* startSession() calls in the runs of SpecBridge
ConfigHandles == 2    \* startSession() calls in the runs of SpecConfig
ConfigSockets == 1    \* connections in the runs of SpecConfig
EndpointHandles == 1  \* startSession() calls in the runs of SpecEndpoint
EndpointSockets == 2  \* connections in the runs of SpecEndpoint
CapHandles == 2       \* startSession() calls in the runs of SpecCap
CapSockets == 1       \* connections in the runs of SpecCap
StopHandles == 1      \* startSession() calls in the runs of SpecStop
StopSockets == 1      \* connections in the runs of SpecStop
DispatchHandles == 1  \* startSession() calls in the runs of SpecDispatch
DispatchSockets == 1  \* connections in the runs of SpecDispatch
StatusHandles == 2    \* startSession() calls in the runs of SpecStatus
StatusSockets == 2    \* connections in the runs of SpecStatus
DefaultSockets == 1   \* connections in the runs of SpecDefault
OverlapHandles == 1   \* startSession() calls in the runs of SpecOverlap
OverlapSockets == 1   \* connections in the runs of SpecOverlap
QueuedHandles == 1    \* startSession() calls in the runs of SpecQueued
QueuedSockets == 2    \* connections in the runs of SpecQueued
LazyHandles == 2      \* startSession() calls in the runs of SpecLazy
LazySockets == 1      \* connections in the runs of SpecLazy
InterruptHandles == 3 \* startSession() calls in the runs of SpecInterrupt
InterruptSockets == 1 \* connections in the runs of SpecInterrupt

\* ------------------------------------------------------- program constants
DEFAULT_SESSION_CAP == 20   \* DEFAULT_STATE.sessionCap
FALLBACK_CAP == 20          \* `state.sessionCap || 20`
README_SESSION_CAP == 3     \* README: "Up to 3 concurrent MCP sessions ... by default"

SessionIds == 1..MaxSessions
SocketIds == 1..MaxSockets
HandleIds == 1..MaxHandles
CapValues == 1..MaxCap
CapInputs == -1..MaxCap
Endpoints == {"default", "other"}
None == 0

\* allToolNames of McpManager.enabledTools, cut down to two of its names
AllToolNames == {"S3Tool", "EC2Tool"}

VARIABLES
    disposed,        \* McpManager.disposed
    enabled,         \* McpState.enabled as effectiveState() reads it
    sessionCap,      \* McpState.sessionCap
    disabledTools,   \* McpState.disabledTools
    endpoint,        \* McpState.host / port
    nextSessionId,   \* McpManager.nextSessionId
    activeSessions,  \* keys of McpManager.activeSessions
    term,            \* per local session: its terminal / pty
    ltools,          \* per local session: its dispatcher's tools
    queue,           \* McpManager.queue (the promise each entry will settle)
    promise,         \* the promise each startSession() call returned
    nextHandle,      \* number of startSession() calls made so far + 1
    suspended,       \* continuations awaiting McpConfig.update*()
    bridge,          \* McpManager.bridge is defined (and running)
    bridgeAddr,      \* McpBridgeServer.host / port
    active,          \* McpBridgeServer.active
    queued,          \* McpBridgeServer.queued
    sock,            \* per connection: socket state, owner, dispatcher tools
    mcpCurrent,      \* McpSession.Current
    arrivals,        \* history: the promises in the order they were first queued
    dispatcherImpl,  \* which of the two McpDispatcher sources is built in
    sessionCurrent,  \* Session.Current is set (the runtime context)
    calls,           \* tools/call requests suspended at an await
    DisabledTools,   \* Session.Current.DisabledTools and .DisabledCommands
    transport,       \* the transport of the session whose input is framed
    sent,            \* the characters its client sends in all
    wire,            \* what of them has not been delivered yet (bytes on a socket)
    buffer,          \* the session's buffer (McpSession.buffer / beginSession's)
    parsed,          \* the lines handed to JSON.parse so far
    last             \* what the last step received, wrote and invoked

coreVars == <<disposed, enabled, sessionCap, disabledTools, endpoint,
              nextSessionId, activeSessions, term, ltools, queue, promise,
              nextHandle, suspended, bridge, bridgeAddr, active, queued, sock,
              mcpCurrent, arrivals>>

rpcVars == <<dispatcherImpl, sessionCurrent, calls, DisabledTools, last>>
lineVars == <<transport, sent, wire, buffer, parsed>>
vars == <<coreVars, rpcVars, lineVars>>

\* The state as one record, for the handlers below.
St ==
    [disposed |-> disposed, enabled |-> enabled, sessionCap |-> sessionCap,
     disabledTools |-> disabledTools, endpoint |-> endpoint,
     nextSessionId |-> nextSessionId, activeSessions |-> activeSessions,
     term |-> term, ltools |-> ltools, queue |-> queue, promise |-> promise,
     nextHandle |-> nextHandle, suspended |-> suspended, bridge |-> bridge,
     bridgeAddr |-> bridgeAddr, active |-> active, queued |-> queued,
     sock |-> sock, mcpCurrent |-> mcpCurrent, arrivals |-> arrivals]

\* The next state is the record S; session ids stay within the bound.
Commit(S) ==
    /\ S.nextSessionId <= MaxSessions + 1
    /\ disposed' = S.disposed
    /\ enabled' = S.enabled
    /\ sessionCap' = S.sessionCap
    /\ disabledTools' = S.disabledTools
    /\ endpoint' = S.endpoint
    /\ nextSessionId' = S.nextSessionId
    /\ activeSessions' = S.activeSessions
    /\ term' = S.term
    /\ ltools' = S.ltools
    /\ queue' = S.queue
    /\ promise' = S.promise
    /\ nextHandle' = S.nextHandle
    /\ suspended' = S.suspended
    /\ bridge' = S.bridge
    /\ bridgeAddr' = S.bridgeAddr
    /\ active' = S.active
    /\ queued' = S.queued
    /\ sock' = S.sock
    /\ mcpCurrent' = S.mcpCurrent
    /\ arrivals' = S.arrivals

Max(a, b) == IF a >= b THEN a ELSE b

\* ------------------------------------------------------------ McpManager

\* Math.max(1, state.sessionCap || 20): 0 is falsy and becomes 20.
EffectiveCap(c) == Max(1, IF c = 0 THEN FALLBACK_CAP ELSE c)

\* enabledTools without the filter on the disabled names
enabledTools_all(S) == AllToolNames

\* McpManager.enabledTools
enabledTools(S) == AllToolNames \ S.disabledTools

\* totalActive counting the bridge's own sessions only
totalActive_socketsOnly(S) == S.active

\* McpBridgeServer.totalActive
totalActive(S) == Cardinality(S.activeSessions) + S.active

\* McpBridgeServer.beginSession: count the session, give it a dispatcher
beginSession(S, s) ==
    [S EXCEPT !.active = @ + 1,
              !.sock[s] = [@ EXCEPT !.st = "session", !.hadSession = TRUE,
                                    !.tools = enabledTools(S)]]

\* tryPromoteQueued taking the newest queued socket: pop() for shift()
RECURSIVE tryPromoteQueued_pop(_)
tryPromoteQueued_pop(S) ==
    IF Len(S.queued) > 0 /\ totalActive(S) < EffectiveCap(S.sessionCap)
    THEN tryPromoteQueued_pop(
             beginSession([S EXCEPT !.queued = SubSeq(@, 1, Len(@) - 1)],
                          S.queued[Len(S.queued)]))
    ELSE S

\* McpBridgeServer.tryPromoteQueued
RECURSIVE tryPromoteQueued(_)
tryPromoteQueued(S) ==
    IF Len(S.queued) > 0 /\ totalActive(S) < EffectiveCap(S.sessionCap)
    THEN tryPromoteQueued(beginSession([S EXCEPT !.queued = Tail(@)], Head(S.queued)))
    ELSE S

\* McpBridgeServer.notifyCapacityChange, called as this.bridge?.notify...
notifyCapacityChange(S) == IF S.bridge THEN tryPromoteQueued(S) ELSE S

\* McpBridgeServer.stop followed by `this.bridge = undefined`: queued sockets
\* are destroyed, the counter is reset, sockets with a session are left open
\* and from now on belong to a stopped instance.
stopBridge(S) ==
    IF ~S.bridge THEN S
    ELSE [S EXCEPT
            !.sock = [s \in SocketIds |->
                IF S.sock[s].st = "queued"
                THEN [S.sock[s] EXCEPT !.st = "destroyed", !.notices = 0]
                ELSE IF S.sock[s].hadSession
                THEN [S.sock[s] EXCEPT !.stale = TRUE]
                ELSE S.sock[s]],
            !.queued = <<>>,
            !.active = 0,
            !.bridge = FALSE]

\* McpManager.ensureBridge with the host/port of the state it was given
ensureBridge(S, ep) ==
    IF S.bridge /\ S.bridgeAddr = ep THEN S
    ELSE [stopBridge(S) EXCEPT !.bridge = TRUE, !.bridgeAddr = ep,
                               !.active = 0, !.queued = <<>>]

Resolved(sid) == [st |-> "session", session |-> sid]
Cancelled == [st |-> "undefined", session |-> None]
Pending == [st |-> "pending", session |-> None]
Unused == [st |-> "unused", session |-> None]

\* startSession testing the count with > where the code has >=
startSessionTail_offByOne(S, h, capRead, ep) ==
    LET S1 == ensureBridge(S, ep)
        cap == EffectiveCap(capRead)
        id == S1.nextSessionId
    IN IF Cardinality(S1.activeSessions) > cap
       THEN [S1 EXCEPT !.queue = Append(@, h),
                       !.arrivals = IF \E k \in 1..Len(@) : @[k] = h
                                    THEN @ ELSE Append(@, h)]
       ELSE [S1 EXCEPT !.nextSessionId = id + 1,
                       !.activeSessions = @ \cup {id},
                       !.term = IF id \in SessionIds
                                THEN [@ EXCEPT ![id] = "open"] ELSE @,
                       !.ltools = IF id \in SessionIds
                                  THEN [@ EXCEPT ![id] = enabledTools(S1)] ELSE @,
                       !.promise[h] = Resolved(id),
                       !.mcpCurrent = id]

\* McpManager.startSession from ensureBridge on (lines 41-60), for the call
\* that returned promise h, with the state read before the await.
startSessionTail(S, h, capRead, ep) ==
    LET S1 == ensureBridge(S, ep)
        cap == EffectiveCap(capRead)
        id == S1.nextSessionId
    IN IF Cardinality(S1.activeSessions) >= cap
       THEN [S1 EXCEPT !.queue = Append(@, h),
                       !.arrivals = IF \E k \in 1..Len(@) : @[k] = h
                                    THEN @ ELSE Append(@, h)]
       ELSE [S1 EXCEPT !.nextSessionId = id + 1,
                       !.activeSessions = @ \cup {id},
                       !.term = IF id \in SessionIds
                                THEN [@ EXCEPT ![id] = "open"] ELSE @,
                       !.ltools = IF id \in SessionIds
                                  THEN [@ EXCEPT ![id] = enabledTools(S1)] ELSE @,
                       !.promise[h] = Resolved(id),
                       !.mcpCurrent = id]

\* McpManager.startSession for the call that returned promise h
startSession(S, h) ==
    IF S.disposed THEN [S EXCEPT !.promise[h] = Cancelled]
    ELSE IF ~S.enabled
    THEN [S EXCEPT !.enabled = TRUE,
                   !.suspended = Append(@, [kind |-> "startSession", h |-> h,
                                            cap |-> S.sessionCap, ep |-> S.endpoint])]
    ELSE startSessionTail(S, h, S.sessionCap, S.endpoint)

\* onSessionClosed re-attempting startSession without passing its result
\* to the queued request
onSessionClosed_forgetsResolve(S, id) ==
    LET S1 == [S EXCEPT !.activeSessions = @ \ {id}]
        S2 == IF Len(S1.queue) > 0
              THEN [startSession([S1 EXCEPT !.queue = Tail(@)], Head(S1.queue))
                       EXCEPT !.promise = S1.promise]
              ELSE S1
    IN notifyCapacityChange(S2)

\* onSessionClosed that frees the slot and leaves the queue alone
onSessionClosed_keepsQueue(S, id) ==
    notifyCapacityChange([S EXCEPT !.activeSessions = @ \ {id}])

\* McpManager.onSessionClosed
onSessionClosed(S, id) ==
    LET S1 == [S EXCEPT !.activeSessions = @ \ {id}]
        S2 == IF Len(S1.queue) > 0
              THEN startSession([S1 EXCEPT !.queue = Tail(@)], Head(S1.queue))
              ELSE S1
    IN notifyCapacityChange(S2)

\* stopAll emptying the queue without settling its promises
stopAll_dropsQueue(S) ==
    stopBridge([S EXCEPT
                  !.term = [i \in SessionIds |->
                              IF i \in S.activeSessions /\ S.term[i] = "open"
                              THEN "disposing" ELSE S.term[i]],
                  !.activeSessions = {},
                  !.queue = <<>>])

\* McpManager.stopAll
stopAll(S) ==
    LET S1 == [S EXCEPT
                 !.term = [i \in SessionIds |->
                             IF i \in S.activeSessions /\ S.term[i] = "open"
                             THEN "disposing" ELSE S.term[i]],
                 !.activeSessions = {},
                 !.promise = [h \in HandleIds |->
                               IF \E k \in 1..Len(S.queue) : S.queue[k] = h
                               THEN Cancelled ELSE S.promise[h]],
                 !.queue = <<>>]
    IN stopBridge(S1)

\* McpManager.startBridge
startBridge(S) ==
    IF S.disposed THEN S
    ELSE IF ~S.enabled
    THEN [S EXCEPT !.enabled = TRUE,
                   !.suspended = Append(@, [kind |-> "startBridge", h |-> None,
                                            cap |-> S.sessionCap, ep |-> S.endpoint])]
    ELSE ensureBridge(S, S.endpoint)

\* McpManager.updateEndpoint up to its await: McpConfig.updateEndpoint
updateEndpoint(S, ep) ==
    [S EXCEPT !.endpoint = ep,
              !.suspended = Append(@, [kind |-> "updateEndpoint", h |-> None,
                                       cap |-> S.sessionCap, ep |-> ep])]

\* McpManager.updateEndpoint after its await (lines 101-106)
updateEndpointTail(S) ==
    IF S.bridge THEN ensureBridge(stopBridge(S), S.endpoint) ELSE S

\* The continuation k of an async method, run when its await completes.
resume(S, k) ==
    CASE k.kind = "startSession" -> startSessionTail(S, k.h, k.cap, k.ep)
      [] k.kind = "startBridge" -> ensureBridge(S, k.ep)
      [] OTHER -> updateEndpointTail(S)

\* McpManager.checkStatus, without the probe of the port
checkStatus(S) ==
    [running |-> S.bridge,
     activeSessions |-> Cardinality(S.activeSessions) + (IF S.bridge THEN S.active ELSE 0),
     queuedConnections |-> IF S.bridge THEN Len(S.queued) ELSE 0,
     sessionCap |-> EffectiveCap(S.sessionCap)]

\* checkStatus reporting the local sessions only
checkStatusReport_localOnly(S, reachable) ==
    [kind |-> "status", running |-> S.bridge, reachable |-> reachable,
     activeSessions |-> Cardinality(S.activeSessions),
     queuedConnections |-> IF S.bridge THEN Len(S.queued) ELSE 0,
     sessionCap |-> EffectiveCap(S.sessionCap),
     message |-> IF ~S.bridge THEN "Bridge is not started yet"
                 ELSE IF ~reachable THEN "Bridge is running but not reachable"
                 ELSE "undefined"]

\* McpManager.checkStatus with the answer of tryProbe: the report it
\* returns (lines 130-146).
checkStatusReport(S, reachable) ==
    LET r == checkStatus(S)
    IN [kind |-> "status", running |-> r.running, reachable |-> reachable,
        activeSessions |-> r.activeSessions,
        queuedConnections |-> r.queuedConnections,
        sessionCap |-> r.sessionCap,
        message |-> IF ~r.running THEN "Bridge is not started yet"
                    ELSE IF r.running /\ ~reachable
                    THEN "Bridge is running but not reachable"
                    ELSE "undefined"]

\* ------------------------------------------------------- McpBridgeServer

\* McpBridgeServer.handleConnection
handleConnection(S, s) ==
    IF totalActive(S) >= EffectiveCap(S.sessionCap)
    THEN [S EXCEPT !.queued = Append(@, s),
                   !.sock[s] = [@ EXCEPT !.st = "queued", !.stale = FALSE,
                                         !.notices = @ + 1]]
    ELSE beginSession([S EXCEPT !.sock[s] = [@ EXCEPT !.stale = FALSE]], s)

\* removeQueued leaving the queue as it is
removeQueued_keeps(S, s) == S

\* McpBridgeServer.removeQueued, the queued socket's 'close'/'end' listener
removeQueued(S, s) ==
    IF S.sock[s].notices > 0 /\ ~S.sock[s].stale
    THEN [S EXCEPT !.queued = SelectSeq(@, LAMBDA x : x # s)]
    ELSE S

\* The `close` closure of beginSession, the listener of the session socket's
\* 'error', 'close' and 'end'.  A socket begun by a bridge instance that has
\* been stopped since updates that instance: its queue is empty and it is no
\* longer the manager's bridge.
closeHandler(S, s) ==
    IF ~S.sock[s].hadSession \/ S.sock[s].stale THEN S
    ELSE tryPromoteQueued([S EXCEPT !.active = Max(0, @ - 1)])

NewSocket == [st |-> "new", stale |-> FALSE, hadSession |-> FALSE,
              notices |-> 0, tools |-> {}]
ClosedSocket == [NewSocket EXCEPT !.st = "closed"]

\* 'end' or 'error' arrives: the listeners run, the socket is destroyed and
\* its 'close' is still to come.
socketEvent(S, s) ==
    [closeHandler(removeQueued(S, s), s) EXCEPT
        !.sock[s] = [@ EXCEPT !.st = "destroyed", !.notices = 0, !.tools = {},
                              !.stale = @ /\ S.sock[s].hadSession]]

\* 'close' arrives: the listeners run (again), the socket is gone.
socketClosed(S, s) ==
    [closeHandler(removeQueued(S, s), s) EXCEPT !.sock[s] = ClosedSocket]

\* ------------------------------------------------------------ McpSession

\* McpSession.close
close(S, i) ==
    [onSessionClosed([S EXCEPT !.term[i] = "closed"], i) EXCEPT !.mcpCurrent = None]

\* --------------------------------------------------------- McpDispatcher

MaxCalls == 2         \* tools/call requests in flight at one time
DispatchCalls == 1    \* of them in the runs of SpecDispatch and SpecStop

Chan(kind, n) == [kind |-> kind, n |-> n]
LocalChans == {Chan("local", i) : i \in SessionIds}
SocketChans == {Chan("socket", s) : s \in SocketIds}

\* One line written to a channel.  id "absent" is a line without an id.
Line(to, kind, id, body, tools) ==
    [to |-> to, kind |-> kind, id |-> id, body |-> body, tools |-> tools]

\* McpSession.Current?.writeLine(text)
currentWriteLine(cur, text) ==
    IF cur # None THEN <<Line(Chan("local", cur), "log", "absent", text, {})>>
    ELSE <<>>

\* toolMetadata: the names package.json's languageModelTools declares
toolMetadata == AllToolNames

\* McpDispatcher.listTools
listTools(tools) == {t \in tools : t \in toolMetadata}

\* ActionGuard.needsConfirmation: the command names a mutating verb
needsConfirmation(command) == command \in {"DeleteBucket"}

\* handle without the test that the tool is in the dispatcher's tool map
handle_noEnabledTest(impl, tools, cur, sessCur, fsOk, c, req) ==
    LET log == IF impl = "registry" THEN currentWriteLine(cur, "Request Method") ELSE <<>>
        reply(body) == [out |-> log \o <<Line(c, "response", req.id, body, {})>>,
                        pend |-> "none"]
        silent == [out |-> log, pend |-> "none"]
        logCall == IF impl = "registry" THEN currentWriteLine(cur, "Calling toolName") ELSE <<>>
    IN IF req.method = "initialize" THEN reply("initialize")
       ELSE IF req.method \in {"notifications/initialized", "initialized"} THEN silent
       ELSE IF req.id \in {"absent", "null"} THEN silent
       ELSE IF req.method \in {"list_tools", "tools/list"}
       THEN [out |-> log \o <<Line(c, "response", req.id, "tools", listTools(tools))>>,
             pend |-> "none"]
       ELSE IF impl = "registry" /\ req.method \in {"list_resources", "resources/list"}
       THEN reply("resources")
       ELSE IF impl = "registry" /\ req.method \in {"read_resource", "resources/read"}
       THEN IF req.uri = "" THEN reply("uri is required")
            ELSE IF req.uri # "README_AWS_SERVICES" THEN reply("Resource not found")
            ELSE IF fsOk THEN reply("contents")
            ELSE reply("Failed to read resource")
       ELSE IF req.method \in {"call_tool", "tools/call"}
       THEN IF req.tool = "" \/ req.command = ""
            THEN [out |-> log \o logCall
                            \o <<Line(c, "response", req.id, "tool and command are required", {})>>,
                  pend |-> "none"]
            ELSE IF ~sessCur
            THEN [out |-> log \o logCall
                            \o <<Line(c, "response", req.id, "Session not initialized", {})>>,
                  pend |-> "none"]
            ELSE IF impl = "static" /\ needsConfirmation(req.command)
            THEN [out |-> log \o logCall, pend |-> "confirm"]
            ELSE [out |-> log \o logCall, pend |-> "invoke"]
       ELSE reply("Method not found")

\* McpDispatcher.handle up to its first await (or to its return): the lines
\* it causes and the await it stops at.  tools is the dispatcher's tool map,
\* cur is McpSession.Current, c the channel the response goes back on.
handle(impl, tools, cur, sessCur, fsOk, c, req) ==
    LET log == IF impl = "registry" THEN currentWriteLine(cur, "Request Method") ELSE <<>>
        reply(body) == [out |-> log \o <<Line(c, "response", req.id, body, {})>>,
                        pend |-> "none"]
        silent == [out |-> log, pend |-> "none"]
        logCall == IF impl = "registry" THEN currentWriteLine(cur, "Calling toolName") ELSE <<>>
    IN IF req.method = "initialize" THEN reply("initialize")
       ELSE IF req.method \in {"notifications/initialized", "initialized"} THEN silent
       ELSE IF req.id \in {"absent", "null"} THEN silent
       ELSE IF req.method \in {"list_tools", "tools/list"}
       THEN [out |-> log \o <<Line(c, "response", req.id, "tools", listTools(tools))>>,
             pend |-> "none"]
       ELSE IF impl = "registry" /\ req.method \in {"list_resources", "resources/list"}
       THEN reply("resources")
       ELSE IF impl = "registry" /\ req.method \in {"read_resource", "resources/read"}
       THEN IF req.uri = "" THEN reply("uri is required")
            ELSE IF req.uri # "README_AWS_SERVICES" THEN reply("Resource not found")
            ELSE IF fsOk THEN reply("contents")
            ELSE reply("Failed to read resource")
       ELSE IF req.method \in {"call_tool", "tools/call"}
       THEN IF req.tool = "" \/ req.command = ""
            THEN [out |-> log \o logCall
                            \o <<Line(c, "response", req.id, "tool and command are required", {})>>,
                  pend |-> "none"]
            ELSE IF req.tool \notin tools
            THEN [out |-> log \o logCall
                            \o <<Line(c, "response", req.id, "not enabled", {})>>,
                  pend |-> "none"]
            ELSE IF ~sessCur
            THEN [out |-> log \o logCall
                            \o <<Line(c, "response", req.id, "Session not initialized", {})>>,
                  pend |-> "none"]
            ELSE IF impl = "static" /\ needsConfirmation(req.command)
            THEN [out |-> log \o logCall, pend |-> "confirm"]
            ELSE [out |-> log \o logCall, pend |-> "invoke"]
       ELSE reply("Method not found")

\* The finally of tools/call: s.DisabledTools = originalDisabledTools
\* (and the same for DisabledCommands).
restoreContext(call) == call.original

\* const originalDisabledTools = s.DisabledTools, taken when the call
\* reaches the invocation.
saveContext(pend, current) == IF pend = "invoke" THEN current ELSE "unsaved"

\* The rest of handle once confirmProceed has answered.
confirmed(call, ok) ==
    IF ok THEN [out |-> <<>>, pend |-> "invoke"]
    ELSE [out |-> <<Line(call.chan, "response", call.req.id, "User cancelled action command", {})>>,
          pend |-> "none"]

\* tokenSource.token.isCancellationRequested for a suspended call: the token
\* source is created and disposed, and cancel() is called nowhere.
tokenCancelled(call) == FALSE

\* a throwing tool answered by the inner and by the outer handler
invoked_twice(call, outcome) ==
    IF outcome = "throws"
    THEN <<Line(call.chan, "response", call.req.id, "tool error", {}),
           Line(call.chan, "response", call.req.id, "tool error", {})>>
    ELSE <<Line(call.chan, "response", call.req.id, "content", {})>>

\* a line that does not parse dropped without an answer
invalidJson_silent(c) == <<>>

\* The catch of JSON.parse in the line loops: one error line without an id.
invalidJson(c) == <<Line(c, "response", "absent", "Invalid JSON", {})>>

\* a throwing tool left unanswered
invoked_silentThrow(call, outcome) ==
    IF outcome = "throws" THEN <<>>
    ELSE <<Line(call.chan, "response", call.req.id, "content", {})>>

\* The rest of handle once tool.instance.invoke has returned or thrown.
invoked(call, outcome) ==
    IF outcome = "throws"
    THEN <<Line(call.chan, "response", call.req.id, "tool error", {})>>
    ELSE <<Line(call.chan, "response", call.req.id, "content", {})>>

\* ---------------------------------------------------------- line framing

MaxInput == 4         \* characters a client sends in the runs of SpecFraming

\* The characters of the input: a letter, a two-byte letter, a blank, \\r
\* and \\n.  On a socket "E" travels as the bytes C3 A9.
Chars == {"a", "E", "SP", "CR", "LF"}
Whitespace == {"SP", "CR", "LF"}

\* The bytes a client writes for a string (UTF-8).
RECURSIVE encodeUtf8(_)
encodeUtf8(s) ==
    IF s = <<>> THEN <<>>
    ELSE (IF Head(s) = "E" THEN <<"C3", "A9">> ELSE <<Head(s)>>) \o encodeUtf8(Tail(s))

\* chunk.toString('utf-8'): a lead byte without its continuation byte, and
\* a continuation byte without its lead byte, decode to U+FFFD.
RECURSIVE toStringUtf8(_)
toStringUtf8(b) ==
    IF b = <<>> THEN <<>>
    ELSE IF Head(b) = "C3"
    THEN IF Len(b) >= 2 /\ b[2] = "A9"
         THEN <<"E">> \o toStringUtf8(Tail(Tail(b)))
         ELSE <<"U+FFFD">> \o toStringUtf8(Tail(b))
    ELSE IF Head(b) = "A9" THEN <<"U+FFFD">> \o toStringUtf8(Tail(b))
    ELSE <<Head(b)>> \o toStringUtf8(Tail(b))

\* the regular expression's optional \\r before the \\n
stripCR(piece) ==
    IF Len(piece) > 0 /\ piece[Len(piece)] = "CR"
    THEN SubSeq(piece, 1, Len(piece) - 1) ELSE piece

\* s.split(/\\r?\\n/), cur being the piece read so far
RECURSIVE split(_, _)
split(s, cur) ==
    IF s = <<>> THEN <<cur>>
    ELSE IF Head(s) = "LF" THEN <<stripCR(cur)>> \o split(Tail(s), <<>>)
    ELSE split(Tail(s), Append(cur, Head(s)))

RECURSIVE trimStart(_)
trimStart(l) ==
    IF l # <<>> /\ Head(l) \in Whitespace THEN trimStart(Tail(l)) ELSE l

RECURSIVE trimEnd(_)
trimEnd(l) ==
    IF l # <<>> /\ l[Len(l)] \in Whitespace
    THEN trimEnd(SubSeq(l, 1, Len(l) - 1)) ELSE l

\* line.trim()
trim(l) == trimEnd(trimStart(l))

\* McpSession.handleInput for data without the interrupt character, and
\* the same loop of the 'data' listener: the buffer left behind and the
\* lines given to JSON.parse, blank lines skipped.
handleInput(buf, data) ==
    LET pieces == split(buf \o data, <<>>)
        lines == SubSeq(pieces, 1, Len(pieces) - 1)
        trimmed == [k \in 1..Len(lines) |-> trim(lines[k])]
    IN [buffer |-> pieces[Len(pieces)],
        parsed |-> SelectSeq(trimmed, LAMBDA l : l # <<>>)]

\* What arrives as `data` for a chunk: the terminal passes strings, the
\* socket passes bytes that the listener decodes chunk by chunk.
dataOf(tr, chunk) == IF tr = "socket" THEN toStringUtf8(chunk) ELSE chunk

\* The next n units of the input arrive as one chunk.
Data(n) ==
    /\ n \in 1..Len(wire)
    /\ LET r == handleInput(buffer, dataOf(transport, SubSeq(wire, 1, n)))
       IN /\ buffer' = r.buffer
          /\ parsed' = parsed \o r.parsed
    /\ wire' = SubSeq(wire, n + 1, Len(wire))
    /\ UNCHANGED <<coreVars, rpcVars, transport, sent>>

\* ------------------------------------------------------------------ steps

MaxSuspended == 2     \* async methods waiting at an await at one time

NoChan == Chan("none", None)
NoReq == [id |-> "absent", method |-> "", tool |-> "", command |-> "", uri |-> ""]

\* The record of a step: the operation, the channel and request it was
\* about, the lines it wrote, whether it called tool.instance.invoke and
\* whether it called confirmProceed.
Step(op, c, req, out, invoke, ask) ==
    [op |-> op, chan |-> c, req |-> req, out |-> out, invoke |-> invoke, ask |-> ask]

Op(op) == Step(op, NoChan, NoReq, <<>>, FALSE, FALSE)

\* A manager, bridge or socket step: S is the state after it.
Core(op, c, S) ==
    /\ Commit(S)
    /\ last' = Step(op, NoChan, NoReq, <<>>, FALSE, FALSE)
    /\ UNCHANGED <<dispatcherImpl, sessionCurrent, calls, DisabledTools, lineVars>>

\* A caller invokes McpManager.startSession().
StartSession ==
    /\ nextHandle <= MaxHandles
    /\ ~enabled => Len(suspended) < MaxSuspended
    /\ Core("startSession", NoChan,
            startSession([St EXCEPT !.nextHandle = @ + 1,
                                    !.promise[nextHandle] = Pending], nextHandle))

\* A caller invokes McpManager.startBridge().
StartBridge ==
    /\ ~enabled => Len(suspended) < MaxSuspended
    /\ Core("startBridge", NoChan, startBridge(St))

\* The update an async method awaits completes; the method goes on.
Resume ==
    /\ Len(suspended) > 0
    /\ Core(Head(suspended).kind, NoChan,
            resume([St EXCEPT !.suspended = Tail(@)], Head(suspended)))

\* McpManager.stopAll()
StopAll == Core("stopAll", NoChan, stopAll(St))

\* McpManager.dispose()
Dispose ==
    /\ ~disposed
    /\ Core("dispose", NoChan, stopAll([St EXCEPT !.disposed = TRUE]))

\* McpManager.setEnabled(b)
SetEnabled(b) == Core("setEnabled", NoChan, [St EXCEPT !.enabled = b])

\* McpManager.setSessionCap(c)
SetSessionCap(c) ==
    Core("setSessionCap", NoChan,
         [St EXCEPT !.sessionCap = c])

\* setDisabledTools rebuilding the tool maps of the sessions already open
SetDisabledTools_retroactive(d) ==
    Core("setDisabledTools", NoChan,
         [St EXCEPT !.disabledTools = d,
                    !.ltools = [i \in SessionIds |->
                                  IF i \in activeSessions THEN AllToolNames \ d
                                  ELSE ltools[i]]])

\* McpManager.setDisabledTools(d)
SetDisabledTools(d) == Core("setDisabledTools", NoChan, [St EXCEPT !.disabledTools = d])

\* McpManager.updateEndpoint(host, port)
UpdateEndpoint(ep) ==
    /\ Len(suspended) < MaxSuspended
    /\ Core("updateEndpoint", NoChan, updateEndpoint(St, ep))

\* A caller invokes McpManager.checkStatus(); the probe of the port
\* succeeds or fails.
CheckStatus(reachable) ==
    /\ last' = Step("checkStatus", NoChan, NoReq,
                    <<checkStatusReport(St, reachable)>>, FALSE, FALSE)
    /\ UNCHANGED <<coreVars, dispatcherImpl, sessionCurrent, calls, DisabledTools, lineVars>>

\* The host calls McpSession.close(): the terminal was closed or disposed.
LocalClose(i) ==
    /\ term[i] \in {"open", "disposing"}
    /\ Core("close", Chan("local", i), close(St, i))

\* A client connects to the listening bridge.  Connections are numbered in
\* the order they arrive.
Connect(s) ==
    /\ bridge
    /\ sock[s].st = "new"
    /\ \A r \in SocketIds : r < s => sock[r].st # "new"
    /\ Core("connect", Chan("socket", s), handleConnection(St, s))

\* The client half-closes: the socket emits 'end'.
SocketEnd(s) ==
    /\ sock[s].st \in {"queued", "session"}
    /\ Core("end", Chan("socket", s), socketEvent(St, s))

\* The connection fails: the session socket emits 'error'.
SocketError(s) ==
    /\ sock[s].st = "session"
    /\ Core("error", Chan("socket", s), socketEvent(St, s))

\* The socket emits 'close', after it was destroyed or ended, or at once.
SocketClose(s) ==
    /\ sock[s].st \in {"queued", "destroyed"}
    /\ Core("socketClose", Chan("socket", s), socketClosed(St, s))

\* --------------------------------------------------------------- requests

Ids == {"absent", "null", "7"}
Methods == {"initialize", "initialized", "tools/list", "resources/list",
            "unknown/method"}
Requests ==
    {[id |-> i, method |-> m, tool |-> "", command |-> "", uri |-> ""] :
        i \in Ids, m \in Methods}
    \cup {[id |-> i, method |-> "tools/call", tool |-> t, command |-> c, uri |-> ""] :
        i \in Ids, t \in {"", "S3Tool"}, c \in {"", "ListBuckets", "DeleteBucket"}}
    \cup {[id |-> i, method |-> "resources/read", tool |-> "", command |-> "", uri |-> u] :
        i \in Ids, u \in {"", "README_AWS_SERVICES", "file://other"}}

\* a bridge that attaches the 'data' listener when the connection arrives
Live_onConnection(c) ==
    \/ c.kind = "local" /\ term[c.n] = "open"
    \/ c.kind = "socket" /\ sock[c.n].st \in {"queued", "session"}

\* The session of channel c is open and reads its input.
Live(c) ==
    \/ c.kind = "local" /\ term[c.n] = "open"
    \/ c.kind = "socket" /\ sock[c.n].st = "session"

\* a dispatcher that reads the enabled tools at each request
DispatcherTools_live(c) == AllToolNames \ disabledTools

\* The tool map of the dispatcher of channel c.
DispatcherTools(c) == IF c.kind = "local" THEN ltools[c.n] ELSE sock[c.n].tools

RemoveAt(q, k) == [j \in 1..(Len(q) - 1) |-> IF j < k THEN q[j] ELSE q[j + 1]]

\* Local session i receives the interrupt character: handleInput('\\u0003')
\* calls close() and returns, leaving the buffer as it is.
Interrupt(i) ==
    /\ Live(Chan("local", i))
    /\ Core("interrupt", Chan("local", i), close(St, i))

\* One request line arrives on channel c and is dispatched
\* (McpSession.handleInput / the 'data' listener of beginSession).
Request(c, req) ==
    /\ Live(c)
    /\ \E fsOk \in (IF req.method = "resources/read" THEN BOOLEAN ELSE {TRUE}) :
         LET h == handle(dispatcherImpl, DispatcherTools(c), mcpCurrent,
                         sessionCurrent, fsOk, c, req)
         IN /\ h.pend # "none" => Len(calls) < MaxCalls
            /\ calls' = IF h.pend = "none" THEN calls
                        ELSE Append(calls, [chan |-> c, req |-> req, stage |-> h.pend,
                                            original |-> saveContext(h.pend, DisabledTools)])
            /\ DisabledTools' = IF h.pend = "invoke" THEN "empty" ELSE DisabledTools
            /\ last' = Step("request", c, req, h.out, h.pend = "invoke", h.pend = "confirm")
    /\ UNCHANGED <<coreVars, dispatcherImpl, sessionCurrent, lineVars>>

\* A client writes a request line to connection s while it waits in the
\* bridge queue.  handleConnection gave the socket a 'close' and an 'end'
\* listener only: the line is dispatched if the connection reads its input.
QueuedData(s, req) ==
    /\ sock[s].st = "queued"
    /\ IF Live(Chan("socket", s))
       THEN Request(Chan("socket", s), req)
       ELSE /\ last' = Step("queuedData", Chan("socket", s), req, <<>>, FALSE, FALSE)
            /\ UNCHANGED <<coreVars, dispatcherImpl, sessionCurrent, calls, DisabledTools, lineVars>>

\* One line that is not valid JSON arrives on channel c.
InvalidLine(c) ==
    /\ Live(c)
    /\ last' = Step("invalidJson", c, NoReq, invalidJson(c), FALSE, FALSE)
    /\ UNCHANGED <<coreVars, dispatcherImpl, sessionCurrent, calls, DisabledTools, lineVars>>

\* confirmProceed answers for the k-th suspended call.
Confirm(k, ok) ==
    /\ k \in 1..Len(calls)
    /\ calls[k].stage = "confirm"
    /\ LET r == confirmed(calls[k], ok)
       IN /\ calls' = IF ok THEN [calls EXCEPT ![k].stage = "invoke",
                                                ![k].original = DisabledTools]
                      ELSE RemoveAt(calls, k)
          /\ DisabledTools' = IF ok THEN "empty" ELSE DisabledTools
          /\ last' = Step("confirm", calls[k].chan, calls[k].req, r.out, ok, FALSE)
    /\ UNCHANGED <<coreVars, dispatcherImpl, sessionCurrent, lineVars>>

\* tool.instance.invoke of the k-th suspended call returns or throws.
ToolDone(k, outcome) ==
    /\ k \in 1..Len(calls)
    /\ calls[k].stage = "invoke"
    /\ calls' = RemoveAt(calls, k)
    /\ DisabledTools' = restoreContext(calls[k])
    /\ last' = Step("toolDone", calls[k].chan, calls[k].req,
                    invoked(calls[k], outcome), FALSE, FALSE)
    /\ UNCHANGED <<coreVars, dispatcherImpl, sessionCurrent, lineVars>>

\* ---------------------------------------------------------- specifications

InitFields(caps) ==
    /\ disposed = FALSE
    /\ enabled = FALSE
    /\ sessionCap \in caps
    /\ disabledTools = {}
    /\ endpoint = "default"
    /\ nextSessionId = 1
    /\ activeSessions = {}
    /\ term = [i \in SessionIds |-> "none"]
    /\ ltools = [i \in SessionIds |-> {}]
    /\ queue = <<>>
    /\ promise = [h \in HandleIds |-> Unused]
    /\ nextHandle = 1
    /\ suspended = <<>>
    /\ bridge = FALSE
    /\ bridgeAddr = "default"
    /\ active = 0
    /\ queued = <<>>
    /\ sock = [s \in SocketIds |-> NewSocket]
    /\ mcpCurrent = None
    /\ arrivals = <<>>
    /\ calls = <<>>
    /\ DisabledTools = "original"
    /\ last = Op("init")

\* No session's input is followed.
NoInput ==
    /\ transport = "local"
    /\ sent = <<>>
    /\ wire = <<>>
    /\ buffer = <<>>
    /\ parsed = <<>>

InitCore(caps) == InitFields(caps) /\ NoInput

Init ==
    /\ InitCore(CapValues)
    /\ dispatcherImpl = "registry"
    /\ sessionCurrent = TRUE

\* The environment of a specification: callers make at most hs
\* startSession() calls and at most ss clients connect.
Env(hs, ss) ==
    \/ nextHandle <= hs /\ StartSession
    \/ Resume
    \/ StopAll
    \/ \E c \in CapValues : SetSessionCap(c)
    \/ \E i \in SessionIds : LocalClose(i)
    \/ \E s \in 1..ss : Connect(s)
    \/ \E s \in SocketIds : SocketEnd(s)
    \/ \E s \in SocketIds : SocketError(s)
    \/ \E s \in SocketIds : SocketClose(s)

\* The manager with callers that start sessions, change the cap, stop
\* everything and dispose of the manager, next to one socket client.
Next ==
    \/ Env(MaxHandles, ManagerSockets)
    \/ Dispose

Spec == Init /\ [][Next]_vars

\* The same runs with the configured cap never changed.
SpecFixedCap == Init /\ [][Next /\ sessionCap' = sessionCap]_vars

\* The bridge with clients that connect and disconnect, next to a caller
\* that starts a few local sessions.
NextBridge == Env(BridgeHandles, MaxSockets)

SpecBridge == Init /\ [][NextBridge]_vars

SpecBridgeFixedCap == Init /\ [][NextBridge /\ sessionCap' = sessionCap]_vars

\* The manager with a caller that also changes the disabled tools.
NextConfig ==
    \/ nextHandle <= ConfigHandles /\ StartSession
    \/ Resume
    \/ \E c \in CapValues : SetSessionCap(c)
    \/ \E d \in SUBSET AllToolNames : SetDisabledTools(d)
    \/ \E i \in SessionIds : LocalClose(i)
    \/ \E s \in 1..ConfigSockets : Connect(s)
    \/ \E s \in SocketIds : SocketEnd(s)
    \/ \E s \in SocketIds : SocketClose(s)

SpecConfig == Init /\ [][NextConfig]_vars

\* The manager configured with any integer as the cap, zero and negative
\* values included.
InitCap ==
    /\ InitCore(CapInputs)
    /\ dispatcherImpl = "registry"
    /\ sessionCurrent = TRUE

NextCap ==
    \/ nextHandle <= CapHandles /\ StartSession
    \/ Resume
    \/ \E c \in CapInputs : SetSessionCap(c)
    \/ \E i \in SessionIds : LocalClose(i)
    \/ \E s \in 1..CapSockets : Connect(s)
    \/ \E s \in SocketIds : SocketEnd(s)
    \/ \E s \in SocketIds : SocketClose(s)

SpecCap == InitCap /\ [][NextCap]_vars

\* The bridge with clients, while a caller changes (or re-enters) the
\* host and port.
NextEndpoint ==
    \/ nextHandle <= EndpointHandles /\ StartSession
    \/ Resume
    \/ \E ep \in Endpoints : UpdateEndpoint(ep)
    \/ \E i \in SessionIds : LocalClose(i)
    \/ \E s \in 1..EndpointSockets : Connect(s)
    \/ \E s \in SocketIds : SocketEnd(s)
    \/ \E s \in SocketIds : SocketClose(s)

SpecEndpoint == Init /\ [][NextEndpoint]_vars

InitDispatch ==
    /\ InitCore({DEFAULT_SESSION_CAP})
    /\ dispatcherImpl \in {"registry", "static"}
    /\ sessionCurrent \in BOOLEAN

\* Sessions of both transports that receive requests, while a caller
\* changes the disabled tools, starts sessions and closes them.
NextDispatch ==
    \/ nextHandle <= DispatchHandles /\ StartSession
    \/ Resume
    \/ \E d \in {{}, {"S3Tool"}} : SetDisabledTools(d)
    \/ \E i \in SessionIds : LocalClose(i)
    \/ \E s \in 1..DispatchSockets : Connect(s)
    \/ \E s \in SocketIds : SocketEnd(s)
    \/ \E s \in SocketIds : SocketClose(s)
    \/ \E c \in LocalChans \cup SocketChans, req \in Requests :
          Request(c, req) /\ Len(calls') <= DispatchCalls
    \/ \E c \in LocalChans \cup SocketChans : InvalidLine(c)
    \/ \E k \in 1..MaxCalls, ok \in BOOLEAN : Confirm(k, ok)
    \/ \E k \in 1..MaxCalls, outcome \in {"returns", "throws"} : ToolDone(k, outcome)

SpecDispatch == InitDispatch /\ [][NextDispatch]_vars

\* Sessions of both transports that receive requests, while the manager is
\* stopped.
NextStop ==
    \/ nextHandle <= StopHandles /\ StartSession
    \/ Resume
    \/ StopAll
    \/ \E i \in SessionIds : LocalClose(i)
    \/ \E s \in 1..StopSockets : Connect(s)
    \/ \E s \in SocketIds : SocketEnd(s)
    \/ \E s \in SocketIds : SocketClose(s)
    \/ \E c \in LocalChans \cup SocketChans, req \in Requests :
          Request(c, req) /\ Len(calls') <= DispatchCalls
    \/ \E k \in 1..MaxCalls, ok \in BOOLEAN : Confirm(k, ok)
    \/ \E k \in 1..MaxCalls, outcome \in {"returns", "throws"} : ToolDone(k, outcome)

SpecStop == InitDispatch /\ [][NextStop]_vars

\* The manager and the bridge with a caller that asks for the status.
NextStatus ==
    \/ nextHandle <= StatusHandles /\ StartSession
    \/ Resume
    \/ StopAll
    \/ \E c \in CapValues : SetSessionCap(c)
    \/ \E i \in SessionIds : LocalClose(i)
    \/ \E s \in 1..StatusSockets : Connect(s)
    \/ \E s \in SocketIds : SocketEnd(s)
    \/ \E s \in SocketIds : SocketClose(s)
    \/ \E reachable \in BOOLEAN : CheckStatus(reachable)

SpecStatus == Init /\ [][NextStatus]_vars

\* The manager as installed, with no cap ever configured: callers start
\* sessions and close them, next to one socket client.
InitDefault ==
    /\ InitCore({DEFAULT_SESSION_CAP})
    /\ dispatcherImpl = "registry"
    /\ sessionCurrent = TRUE

NextDefault ==
    \/ nextHandle <= MaxHandles /\ StartSession
    \/ Resume
    \/ \E i \in SessionIds : LocalClose(i)
    \/ \E s \in 1..DefaultSockets : Connect(s)
    \/ \E s \in SocketIds : SocketEnd(s)
    \/ \E s \in SocketIds : SocketClose(s)

SpecDefault == InitDefault /\ [][NextDefault]_vars

\* A bridge at a cap of 1 whose clients send requests while they are
\* queued and after they are promoted.
InitQueued ==
    /\ InitCore({1})
    /\ dispatcherImpl \in {"registry", "static"}
    /\ sessionCurrent = TRUE

NextQueued ==
    \/ nextHandle <= QueuedHandles /\ StartSession
    \/ Resume
    \/ \E i \in SessionIds : LocalClose(i)
    \/ \E s \in 1..QueuedSockets : Connect(s)
    \/ \E s \in SocketIds : SocketEnd(s)
    \/ \E s \in SocketIds : SocketClose(s)
    \/ \E s \in SocketIds, req \in Requests : QueuedData(s, req)
    \/ \E c \in SocketChans, req \in Requests :
          Request(c, req) /\ Len(calls') <= DispatchCalls
    \/ \E k \in 1..MaxCalls, ok \in BOOLEAN : Confirm(k, ok)
    \/ \E k \in 1..MaxCalls, outcome \in {"returns", "throws"} : ToolDone(k, outcome)

SpecQueued == InitQueued /\ [][NextQueued]_vars

\* The manager with callers that start the bridge, start sessions, switch
\* the enabled flag, change the host and port and stop everything.
NextLazy ==
    \/ nextHandle <= LazyHandles /\ StartSession
    \/ StartBridge
    \/ Resume
    \/ StopAll
    \/ \E b \in BOOLEAN : SetEnabled(b)
    \/ \E ep \in Endpoints : UpdateEndpoint(ep)
    \/ \E i \in SessionIds : LocalClose(i)
    \/ \E s \in 1..LazySockets : Connect(s)
    \/ \E s \in SocketIds : SocketEnd(s)
    \/ \E s \in SocketIds : SocketClose(s)

SpecLazy == Init /\ [][NextLazy]_vars

\* One session of either transport whose client sends a short input, cut
\* into chunks in every way.
RECURSIVE Inputs(_)
Inputs(n) ==
    IF n = 0 THEN {<<>>}
    ELSE Inputs(n - 1) \cup {Append(s, c) : s \in Inputs(n - 1), c \in Chars}

InitFraming ==
    /\ InitFields({DEFAULT_SESSION_CAP})
    /\ dispatcherImpl = "registry"
    /\ sessionCurrent = TRUE
    /\ transport \in {"local", "socket"}
    /\ sent \in Inputs(MaxInput)
    /\ wire = (IF transport = "socket" THEN encodeUtf8(sent) ELSE sent)
    /\ buffer = <<>>
    /\ parsed = <<>>

NextFraming == \E n \in 1..(2 * MaxInput) : Data(n)

SpecFraming == InitFraming /\ [][NextFraming]_vars

\* Local sessions that are closed with the interrupt character, next to
\* queued requests and queued connections.
NextInterrupt ==
    \/ nextHandle <= InterruptHandles /\ StartSession
    \/ Resume
    \/ \E c \in CapValues : SetSessionCap(c)
    \/ \E i \in SessionIds : Interrupt(i)
    \/ \E s \in 1..InterruptSockets : Connect(s)
    \/ \E s \in SocketIds : SocketEnd(s)
    \/ \E s \in SocketIds : SocketClose(s)
    \/ \E c \in LocalChans, req \in {r \in Requests : r.method = "tools/list"} :
          Request(c, req)
    \/ \E c \in LocalChans : InvalidLine(c)

SpecInterrupt == Init /\ [][NextInterrupt]_vars

\* Sessions of both transports whose tool calls overlap.
NextOverlap ==
    \/ nextHandle <= OverlapHandles /\ StartSession
    \/ Resume
    \/ \E s \in 1..OverlapSockets : Connect(s)
    \/ \E c \in LocalChans \cup SocketChans, req \in Requests : Request(c, req)
    \/ \E k \in 1..MaxCalls, ok \in BOOLEAN : Confirm(k, ok)
    \/ \E k \in 1..MaxCalls, outcome \in {"returns", "throws"} : ToolDone(k, outcome)

SpecOverlap == InitDispatch /\ [][NextOverlap]_vars

\* ------------------------------------------------------------------ claims

Cap == EffectiveCap(sessionCap)
SocketSessions == {s \in SocketIds : sock[s].st = "session"}
TotalSessions == Cardinality(activeSessions) + Cardinality(SocketSessions)
Before(q, a, b) == \E i, j \in 1..Len(q) : i < j /\ q[i] = a /\ q[j] = b
InSeq(q, a) == \E i \in 1..Len(q) : q[i] = a

\* C1: admission invariant.  In a run that never changes the cap, the
\* active local sessions plus the active socket sessions are at most the
\* effective cap in every state.
C1_AdmissionInvariant == TotalSessions <= Cap

\* C2: local FIFO promotion.  Of two startSession requests that were queued,
\* the one queued later is never given its session while the one queued
\* earlier is still pending.
C2_LocalFifo ==
    \A a, b \in HandleIds :
        (Before(arrivals, a, b) /\ promise[b].st = "session") => promise[a].st # "pending"

\* C3: socket FIFO promotion.  A step that starts a queued connection as a
\* session leaves no connection queued that was ahead of it in the queue.
C3_SocketFifo ==
    [][\A s, r \in SocketIds :
         (sock[s].st = "queued" /\ sock'[s].st = "session" /\ Before(queued, r, s))
             => sock'[r].st # "queued"]_vars

\* A connection that waited in the queue is a session now, promoted past
\* nobody, while another connection still waits.
C3_Witness ==
    \E s, r \in SocketIds :
        /\ sock[s].st = "session" /\ sock[s].notices > 0
        /\ sock[r].st = "queued" /\ r > s

\* The queued entries a step promotes and the active sessions it ends.
Promoted ==
    Cardinality({s \in SocketIds : sock[s].st = "queued" /\ sock'[s].st = "session"})
    + Cardinality({h \in HandleIds : InSeq(queue, h) /\ promise'[h].st = "session"})
Ended ==
    Cardinality({s \in SocketIds : sock[s].st = "session" /\ sock'[s].st # "session"})
    + Cardinality(activeSessions \ activeSessions')
CloseOps == {"close", "end", "error", "socketClose"}

\* C4: queue draining.  In a run that never changes the cap, a close step
\* taken with at most cap sessions active promotes no more queued entries
\* than the sessions it ends (one slot per closed session), and leaves at
\* most cap sessions active.
C4_QueueDraining ==
    [][(last'.op \in CloseOps /\ TotalSessions <= Cap)
          => /\ Promoted <= Ended
             /\ TotalSessions' <= Cap']_vars

\* C10: stopAll postcondition.  Right after stopAll() no local session is
\* active, both queues are empty, the bridge is not running, and every
\* promise that was in the local queue is resolved with undefined.
C10_StopAllPostcondition ==
    [][last'.op \in {"stopAll", "dispose"}
          => /\ activeSessions' = {}
             /\ queue' = <<>>
             /\ queued' = <<>>
             /\ ~bridge'
             /\ \A h \in HandleIds : InSeq(queue, h) => promise'[h] = Cancelled]_vars

\* stopAll() has run with a request in the local queue and a connection in
\* the bridge queue.
C10_Witness ==
    /\ last.op = "stopAll"
    /\ \E h \in HandleIds : promise[h] = Cancelled
    /\ \E s \in SocketIds : sock[s].st = "destroyed" /\ ~sock[s].hadSession

\* The response lines among the lines the last step wrote.
Responses == SelectSeq(last.out, LAMBDA l : l.kind = "response")

\* The last step wrote exactly one response, to the channel of its request
\* and with the id of its request.
Answered ==
    /\ Len(Responses) = 1
    /\ Responses[1].to = last.chan
    /\ Responses[1].id = last.req.id

\* The last step wrote no response and left the request waiting at an await.
Deferred ==
    /\ Len(Responses) = 0
    /\ last.invoke \/ last.ask
    /\ \E k \in 1..Len(calls) : calls[k].chan = last.chan /\ calls[k].req = last.req

\* C5: notification silence.  A request without an id causes no line on any
\* channel, in the step that receives it or later, whatever its method.
C5_NotificationSilence ==
    /\ (last.op = "request" /\ last.req.id = "absent") => last.out = <<>>
    /\ \A k \in 1..Len(calls) : calls[k].req.id # "absent"

NamedCall ==
    /\ last.op = "request"
    /\ last.req.method = "tools/call"
    /\ last.req.id \notin {"absent", "null"}
    /\ last.req.tool # "" /\ last.req.command # ""

\* C7: enable-set isolation.  A session's tool set is the enabled set at its
\* start and never changes while it is open; tools/list lists that set, and
\* tools/call is refused with 'not enabled', without invoking or asking,
\* exactly for the tools outside it.
C7_EnableSetIsolation ==
    /\ [][\A c \in LocalChans \cup SocketChans :
            /\ (Live(c) /\ Live(c)') => DispatcherTools(c)' = DispatcherTools(c)
            /\ (~Live(c) /\ Live(c)') => DispatcherTools(c)' = AllToolNames \ disabledTools'
         ]_vars
    /\ []((/\ last.op = "request"
           /\ last.req.method = "tools/list"
           /\ last.req.id \notin {"absent", "null"})
              => (Answered /\ Responses[1].tools = listTools(DispatcherTools(last.chan))))
    /\ []((NamedCall /\ last.req.tool \notin DispatcherTools(last.chan))
              => (Answered /\ Responses[1].body = "not enabled"
                           /\ ~last.invoke /\ ~last.ask))
    /\ []((NamedCall /\ last.req.tool \in DispatcherTools(last.chan))
              => \A k \in 1..Len(Responses) : Responses[k].body # "not enabled")

\* A session opened before S3Tool was disabled has just had S3Tool invoked.
C7_Witness ==
    /\ NamedCall
    /\ last.req.tool \in disabledTools
    /\ last.invoke

\* C8: confirmation gate.  A mutating command is invoked only in the step
\* in which its confirmation was approved; a declined confirmation is
\* answered 'User cancelled action command' without invoking; only mutating
\* commands are put to confirmation.
C8_ConfirmationGate ==
    /\ (last.invoke /\ needsConfirmation(last.req.command)) => last.op = "confirm"
    /\ last.ask => needsConfirmation(last.req.command)
    /\ (last.op = "confirm" /\ ~last.invoke)
           => (Answered /\ Responses[1].body = "User cancelled action command")

\* The step runs startSession's capacity test for promise h with a cap of 1:
\* a call made with the enabled flag set, or a call going on after its await.
TestsCapacityOne(h) ==
    /\ last'.op = "startSession"
    /\ \/ /\ enabled /\ Cap = 1
          /\ nextHandle = h /\ nextHandle' = h + 1
       \/ /\ Len(suspended) > 0 /\ suspended' = Tail(suspended)
          /\ Head(suspended).h = h
          /\ EffectiveCap(Head(suspended).cap) = 1

\* C9: capacity 1.  With cap 1, a startSession() with no local session open
\* is given a session at once; a startSession() with one open stays pending
\* in the queue and creates no session; closing the only open session gives
\* the oldest queued request a new session whose dispatcher holds the tools
\* enabled at that moment.
C9_CapacityOne ==
    [][/\ \A h \in HandleIds :
            TestsCapacityOne(h)
                => IF activeSessions = {}
                   THEN /\ promise'[h] = Resolved(nextSessionId)
                        /\ activeSessions' = {nextSessionId}
                        /\ ltools'[nextSessionId] = AllToolNames \ disabledTools
                   ELSE /\ promise'[h] = Pending
                        /\ queue' = Append(queue, h)
                        /\ activeSessions' = activeSessions
                        /\ nextSessionId' = nextSessionId
       /\ \A i \in SessionIds :
            (/\ last'.op = "close" /\ Cap = 1
             /\ activeSessions = {i} /\ term[i] = "open" /\ term'[i] = "closed"
             /\ Len(queue) > 0)
                => /\ promise'[Head(queue)] = Resolved(nextSessionId)
                   /\ queue' = Tail(queue)
                   /\ activeSessions' = {nextSessionId}
                   /\ ltools'[nextSessionId] = AllToolNames \ disabledTools]_vars

\* Closing session 1 at cap 1 has given the queued request session 2, with
\* tools that differ from those session 1 was started with.
C9_Witness ==
    /\ last.op = "close"
    /\ Cap = 1
    /\ term[1] = "closed"
    /\ \E h \in HandleIds : promise[h] = Resolved(2)
    /\ activeSessions = {2}
    /\ ltools[2] # ltools[1]
    /\ ltools[2] = AllToolNames \ disabledTools

\* C11: force-stop destroys every session.  No socket session begun by a
\* bridge that has been stopped since is still a session, no local session
\* of before the stop is still active, and no request is dispatched on a
\* connection admitted before the stop.
C11_StopDestroysSessions ==
    /\ \A s \in SocketIds : sock[s].stale => sock[s].st # "session"
    /\ \A i \in SessionIds : term[i] = "disposing" => i \notin activeSessions
    /\ (last.op = "request" /\ last.chan.kind = "socket") => ~sock[last.chan.n].stale

\* C12: socket admission decision.  A connection that arrives is started as
\* a session at once iff local sessions + bridge counter < effective cap, and
\* then is sent no 'queued' frame; otherwise it goes to the tail of the bridge
\* queue and is sent the frame once.  No connection is ever sent it twice, and
\* a queued connection has been sent it.
C12_SocketAdmission ==
    /\ [][\A s \in SocketIds :
            (last'.op = "connect" /\ sock[s].st = "new" /\ sock'[s].st # "new")
              => IF Cardinality(activeSessions) + active < Cap
                 THEN /\ sock'[s].st = "session"
                      /\ sock'[s].notices = 0
                      /\ queued' = queued
                      /\ active' = active + 1
                 ELSE /\ sock'[s].st = "queued"
                      /\ sock'[s].notices = 1
                      /\ queued' = Append(queued, s)
                      /\ active' = active]_vars
    /\ [](\A s \in SocketIds :
            /\ sock[s].notices <= 1
            /\ sock[s].st = "queued" => sock[s].notices = 1)

\* One connection was admitted at once, without the frame, while local
\* sessions are open; a later one waits in the queue with the frame sent.
C12_Witness ==
    /\ last.op = "connect"
    /\ activeSessions # {}
    /\ \E s, r \in SocketIds :
         /\ sock[s].st = "session" /\ sock[s].notices = 0
         /\ sock[r].st = "queued" /\ sock[r].notices = 1 /\ queued = <<r>>

\* The step is the 'end' or 'close' of connection s while it waits in the
\* bridge queue.
QueuedSocketLeaves(s) ==
    /\ last'.op \in {"end", "socketClose"}
    /\ sock[s].st = "queued"
    /\ sock'[s].st \in {"destroyed", "closed"}

\* C13: a queued connection that ends or closes before promotion leaves the
\* queue, with the other queued connections in their order, the bridge
\* counter, the other sockets and the manager's state unchanged; and a
\* connection that left without a session never begins one.
C13_QueuedDisconnect ==
    [][\A s \in SocketIds :
         /\ QueuedSocketLeaves(s)
              => /\ queued' = SelectSeq(queued, LAMBDA x : x # s)
                 /\ active' = active
                 /\ \A r \in SocketIds \ {s} : sock'[r] = sock[r]
                 /\ UNCHANGED <<disposed, enabled, sessionCap, disabledTools,
                                endpoint, nextSessionId, activeSessions, term,
                                ltools, queue, promise, nextHandle, suspended,
                                bridge, bridgeAddr, mcpCurrent>>
         /\ (sock[s].st \in {"destroyed", "closed"} /\ ~sock[s].hadSession)
              => /\ sock'[s].st # "session"
                 /\ ~InSeq(queued', s)]_vars

\* The first of two queued connections has ended; the second still waits
\* and a slot has been free since.
C13_Witness ==
    /\ last.op \in {"close", "end", "socketClose"}
    /\ \E s, r \in SocketIds :
         /\ s < r
         /\ sock[s].st \in {"destroyed", "closed"} /\ ~sock[s].hadSession
         /\ sock[r].st = "session" /\ sock[r].notices = 1

\* C14: per-session ordering.  When a request line of a session is taken up,
\* no earlier request of that session is still being handled: the only call
\* of the session that may be waiting at an await is the one just received.
C14_NoOverlap ==
    last.op = "request"
        => \A k \in 1..Len(calls) :
              calls[k].chan = last.chan
                  => /\ k = Len(calls)
                     /\ last.invoke \/ last.ask
                     /\ calls[k].req = last.req

\* C15: cancellation on destroy.  A tool invocation in flight for a session
\* that is no longer open has its token cancelled, and when it finishes no
\* response is written for it.
C15_CancelOnDestroy ==
    /\ \A k \in 1..Len(calls) :
          (calls[k].stage = "invoke" /\ ~Live(calls[k].chan)) => tokenCancelled(calls[k])
    /\ (last.op = "toolDone" /\ ~Live(last.chan)) => Len(Responses) = 0

\* The last step received a tools/call with an id.
CallRequest ==
    /\ last.op = "request"
    /\ last.req.method = "tools/call"
    /\ last.req.id \notin {"absent", "null"}

\* The last step answered its request with the one error line body.
Refused(body) ==
    /\ Answered
    /\ Responses[1].body = body
    /\ ~last.invoke /\ ~last.ask

\* C16: tools/call acceptance.  A tools/call is refused with 'tool and
\* command are required' if either is missing, else with 'not enabled' if
\* the tool is outside the session's set, else with 'Session not
\* initialized' if the runtime context is unset; only a call that passes all
\* three goes on to the confirmation or the tool, and the tool is invoked for
\* no other request.
C16_CallAcceptance ==
    /\ CallRequest
         => IF last.req.tool = "" \/ last.req.command = ""
            THEN Refused("tool and command are required")
            ELSE IF last.req.tool \notin DispatcherTools(last.chan)
            THEN Refused("not enabled")
            ELSE IF ~sessionCurrent
            THEN Refused("Session not initialized")
            ELSE Deferred
    /\ last.invoke
         => /\ last.req.method = "tools/call"
            /\ last.req.tool # "" /\ last.req.command # ""
            /\ sessionCurrent
            /\ last.op = "request" => last.req.tool \in DispatcherTools(last.chan)

\* A call for a tool outside the session's set arrived while the runtime
\* context was unset as well, and was refused as 'not enabled'.
C16_Witness ==
    /\ CallRequest
    /\ last.req.tool # "" /\ last.req.command # ""
    /\ last.req.tool \notin DispatcherTools(last.chan)
    /\ ~sessionCurrent
    /\ Refused("not enabled")

\* C17: tool errors are contained.  A tool that throws is answered with one
\* error response with the request's id on the request's session; the step
\* in which a tool finishes writes exactly that one response and changes
\* nothing of the sessions, the counters or the queues.
C17_ToolErrorContained ==
    /\ [](\A k \in 1..Len(calls) :
            calls[k].stage = "invoke"
              => invoked(calls[k], "throws")
                   = <<Line(calls[k].chan, "response", calls[k].req.id, "tool error", {})>>)
    /\ [][last'.op = "toolDone"
            => /\ Answered'
               /\ Len(last'.out) = 1
               /\ UNCHANGED coreVars]_vars

\* A tool has thrown on a session that is still open, and the error went to
\* that session.
C17_Witness ==
    /\ last.op = "toolDone"
    /\ Answered
    /\ Responses[1].body = "tool error"
    /\ Live(last.chan)

\* C18: protocol errors are local to one line.  A line that is not valid
\* JSON is answered with one 'Invalid JSON' line, an unknown method with an
\* id with one 'Method not found' response; neither step changes the
\* sessions, the counters, the queues or the calls in flight.
C18_ProtocolErrorsLocal ==
    [][/\ last'.op = "invalidJson"
            => /\ last'.out = <<Line(last'.chan, "response", "absent", "Invalid JSON", {})>>
               /\ UNCHANGED <<coreVars, calls>>
       /\ (/\ last'.op = "request"
           /\ last'.req.method = "unknown/method"
           /\ last'.req.id \notin {"absent", "null"})
            => /\ Answered'
               /\ Responses'[1].body = "Method not found"
               /\ UNCHANGED <<coreVars, calls>>]_vars

\* A line that does not parse arrived on a socket session while a tool call
\* was in flight, and was answered.
C18_Witness ==
    /\ last.op = "invalidJson"
    /\ last.chan.kind = "socket"
    /\ Len(last.out) = 1
    /\ Len(calls) > 0
    /\ Live(last.chan)

\* C19: effective cap.  For every configured cap, checkStatus reports
\* max(1, cap); a startSession() made with the enabled flag set creates a
\* session iff fewer than max(1, cap) local sessions are open; a connection
\* is started as a session iff local sessions + bridge counter < max(1, cap).
C19_EffectiveCap ==
    /\ [](checkStatus(St).sessionCap = Max(1, sessionCap))
    /\ [][(last'.op = "startSession" /\ enabled /\ nextHandle' = nextHandle + 1)
            => (activeSessions' # activeSessions
                  <=> Cardinality(activeSessions) < Max(1, sessionCap))]_vars
    /\ [][\A s \in SocketIds :
            (last'.op = "connect" /\ sock[s].st = "new" /\ sock'[s].st # "new")
              => (sock'[s].st = "session"
                    <=> Cardinality(activeSessions) + active < Max(1, sessionCap))]_vars

\* C20: endpoint change rebinding.  When updateEndpoint goes on after its
\* await with the bridge running: if the configured host/port equals the
\* bound address, the bridge, its counter, its queue and the connections
\* are unchanged; if it differs, the bridge runs on the new address.
C20_EndpointRebinding ==
    [][(/\ last'.op = "updateEndpoint"
        /\ Len(suspended) > 0 /\ suspended' = Tail(suspended)
        /\ bridge)
          => IF bridgeAddr = endpoint
             THEN UNCHANGED <<bridge, bridgeAddr, active, queued, sock>>
             ELSE bridge' /\ bridgeAddr' = endpoint]_vars

\* The two configuration setters of the manager.
ConfigOps == {"setSessionCap", "setDisabledTools"}

\* C21: configuration changes are not retroactive.  A setSessionCap or
\* setDisabledTools step closes no session, admits and re-queues nothing,
\* and leaves every active session, every dispatcher's tool set and every
\* queued entry (local and bridge) as they were; a session created later
\* gets the tool set enabled at its creation.
C21_NotRetroactive ==
    /\ [][last'.op \in ConfigOps =>
            UNCHANGED <<activeSessions, term, ltools, queue, promise, arrivals,
                        nextSessionId, bridge, active, queued, sock, calls>>]_vars
    /\ [][\A i \in SessionIds :
            term[i] = "none" /\ term'[i] = "open" =>
                ltools'[i] = AllToolNames \ disabledTools']_vars

\* A tool was disabled while a session that has it was open and a request
\* was queued behind it.
C21_Witness ==
    /\ last.op = "setDisabledTools"
    /\ queue # <<>>
    /\ \E i \in activeSessions :
          term[i] = "open" /\ ltools[i] # AllToolNames \ disabledTools

\* C22: checkStatus.  With no bridge (never started, or stopped by stopAll)
\* the report says running:false with the message to start the server.
\* With a bridge running it says running:true, activeSessions = the active
\* local sessions plus the bridge's active counter, queuedConnections = the
\* length of the bridge queue, and carries the 'not reachable' message
\* exactly when the probe failed.
C22_CheckStatus ==
    last.op = "checkStatus" =>
        LET r == last.out[1]
        IN IF ~bridge
           THEN ~r.running /\ r.message = "Bridge is not started yet"
           ELSE /\ r.running
                /\ r.activeSessions = Cardinality(activeSessions) + active
                /\ r.queuedConnections = Len(queued)
                /\ (r.message = "Bridge is running but not reachable") <=> ~r.reachable
                /\ r.reachable => r.message = "undefined"

\* The status was asked with sessions of both kinds and a queued
\* connection while the probe failed.
C22_Witness ==
    /\ last.op = "checkStatus"
    /\ bridge /\ activeSessions # {} /\ active > 0 /\ queued # <<>>
    /\ ~last.out[1].reachable

\* The status was asked after stopAll stopped the bridge.
C22_WitnessStopped ==
    /\ last.op = "checkStatus"
    /\ ~bridge /\ enabled /\ suspended = <<>>

\* The step runs startSession's capacity test for the call that returned
\* promise h: a call made with the enabled flag set, or a call going on
\* after its await.
TestsCapacity(h) ==
    /\ last'.op = "startSession"
    /\ \/ /\ enabled /\ ~disposed
          /\ nextHandle = h /\ nextHandle' = h + 1
       \/ /\ Len(suspended) > 0 /\ suspended' = Tail(suspended)
          /\ Head(suspended).h = h

\* C23: atomic local admission.  In a run that never changes the cap the
\* active local sessions are at most the effective cap in every state,
\* whatever the interleaving of startSession() calls, of calls going on
\* after their await and of closes; a call that finds the count at the cap
\* appends its one pending promise to the queue and opens nothing, and a
\* call that finds it below registers its session in the same step.
C23_AtomicLocalAdmission ==
    /\ [](Cardinality(activeSessions) <= Cap)
    /\ [][\A h \in HandleIds :
            TestsCapacity(h)
                => IF Cardinality(activeSessions) >= Cap
                   THEN /\ queue' = Append(queue, h)
                        /\ promise'[h] = Pending
                        /\ activeSessions' = activeSessions
                        /\ nextSessionId' = nextSessionId
                   ELSE /\ queue' = queue
                        /\ promise'[h] = Resolved(nextSessionId)
                        /\ activeSessions' = activeSessions \cup {nextSessionId}]_vars

\* The first call was still at its await when the second call took the
\* only slot; going on, the first call found the count at the cap and was
\* queued.
C23_Witness ==
    /\ last.op = "startSession"
    /\ Cap = 1
    /\ promise[2] = Resolved(1) /\ activeSessions = {1}
    /\ promise[1] = Pending /\ queue = <<1>>

\* C24: default capacity as the README documents it.  With no cap
\* configured, at most README_SESSION_CAP (3) local sessions are open in any
\* state, and a startSession() that finds 3 open is queued.
C24_DefaultCapacity ==
    /\ [](Cardinality(activeSessions) <= README_SESSION_CAP)
    /\ [][\A h \in HandleIds :
            (TestsCapacity(h) /\ Cardinality(activeSessions) = README_SESSION_CAP)
                => /\ queue' = Append(queue, h)
                   /\ promise'[h] = Pending
                   /\ activeSessions' = activeSessions]_vars

\* The socket sessions the running bridge began that have not terminated.
BegunSessions == {s \in SocketIds : sock[s].st = "session" /\ ~sock[s].stale}

\* C25: socket counter accuracy.  In every state the running bridge's
\* active counter equals the number of socket sessions it began that have
\* not yet terminated: a session counts 1 from its beginning, and its
\* termination, delivered as any combination of end, error and close,
\* takes that 1 away once.
C25_CounterAccuracy == bridge => active = Cardinality(BegunSessions)

\* C26: restoration of the shared runtime context.  Whenever no tools/call
\* is at its invocation (every call that replaced DisabledTools and
\* DisabledCommands has returned or thrown), they hold the values they had
\* before the first of the calls began, whatever the calls' interleaving.
C26_ContextRestored ==
    (\A k \in 1..Len(calls) : calls[k].stage # "invoke")
        => DisabledTools = "original"

\* The steps that handle input received on a session's channel.
InputOps == {"request", "invalidJson", "confirm", "toolDone"}

\* C27: session output isolation.  Every line written while a request of
\* one session, local or socket, is handled goes to that session's own
\* channel: nothing is written to the terminal of another session.
C27_OutputIsolation ==
    last.op \in InputOps =>
        \A k \in 1..Len(last.out) : last.out[k].to = last.chan

\* C28: work conservation.  In every state with no operation at an await,
\* a non-empty local queue implies that the active local sessions are at
\* least the effective cap, and a non-empty bridge queue implies that the
\* local and socket sessions together are at least the effective cap: no
\* request stays queued while a slot is free.
C28_WorkConservation ==
    suspended = <<>> =>
        /\ queue # <<>> => Cardinality(activeSessions) >= Cap
        /\ (bridge /\ queued # <<>>) => TotalSessions >= Cap

\* The connections that wait in the bridge queue or have not arrived.
NotBegun == {s \in SocketIds : sock[s].st \in {"new", "queued"}}

\* C29: no dispatch while queued.  A request line a client sends on a
\* connection that is in the bridge queue is given to no dispatcher and
\* gets no answer: the step writes nothing, invokes nothing and suspends
\* no call.  A connection that has not begun its session has no dispatcher
\* (no tool map, no call in flight), and every line that is dispatched on a
\* socket is dispatched on a begun session.
C29_NoDispatchWhileQueued ==
    /\ [][\A s \in SocketIds :
            (sock[s].st = "queued" /\ last'.chan = Chan("socket", s)
             /\ last'.op \in InputOps \cup {"queuedData"})
                => /\ last'.out = <<>> /\ ~last'.invoke /\ ~last'.ask
                   /\ UNCHANGED <<coreVars, calls, DisabledTools>>]_vars
    /\ [](\A s \in NotBegun :
            /\ sock[s].tools = {} /\ ~sock[s].hadSession
            /\ \A k \in 1..Len(calls) : calls[k].chan # Chan("socket", s))
    /\ []((last.op \in {"request", "invalidJson"} /\ last.chan.kind = "socket")
            => sock[last.chan.n].st = "session")

\* A client wrote a tools/call on a connection that was waiting in the
\* queue behind a local session.
C29_Witness ==
    /\ last.op = "queuedData"
    /\ last.req.method = "tools/call" /\ last.req.id = "7"
    /\ last.chan.kind = "socket" /\ sock[last.chan.n].st = "queued"
    /\ InSeq(queued, last.chan.n)
    /\ activeSessions # {}

\* The step is one in which a startSession() or startBridge() call gets
\* past ensureBridge: a call made with the enabled flag set, or a call
\* going on after its await.
EnsuresBridge ==
    /\ last'.op \in {"startSession", "startBridge"}
    /\ ~disposed
    /\ Len(suspended') <= Len(suspended)

\* C30: single lazily-started bridge.  When a startSession() or
\* startBridge() call on a manager that is not disposed has run, a bridge
\* is running and it is bound to the effective host/port; a running bridge
\* that was already bound to that address is the same instance afterwards,
\* its counter, its queue and its sessions kept.
C30_SingleLazyBridge ==
    [][EnsuresBridge
         => /\ bridge' /\ bridgeAddr' = endpoint'
            /\ (bridge /\ bridgeAddr = endpoint)
                  => /\ queued' = queued
                     /\ \A s \in SocketIds : sock'[s].stale = sock[s].stale]_vars

\* The socket sessions a bridge instance that was stopped since had
\* admitted, their connections still open.
SurvivingSessions == {s \in SocketIds : sock[s].st = "session" /\ sock[s].stale}

\* C31: capacity accounting survives a bridge restart.  In a run that never
\* changes the cap, whenever socket sessions admitted by an earlier bridge
\* instance are still connected, the open socket sessions plus the active
\* local sessions are at most the effective cap.
C31_RestartAccounting ==
    SurvivingSessions # {} => TotalSessions <= Cap

\* The step is McpSession.close() of local session i.
Closes(i) ==
    /\ last'.op = "close"
    /\ term[i] \in {"open", "disposing"} /\ term'[i] = "closed"

\* C32: idempotent local close.  A close of a local session that is no
\* longer in the active set (stopAll removed it and disposed its terminal)
\* leaves the manager as it was: the active set is unchanged, the queue
\* holds the same requests in the same order, no request is popped or
\* settled and no session is created.
C32_IdempotentClose ==
    [][\A i \in SessionIds :
         (Closes(i) /\ i \notin activeSessions)
            => UNCHANGED <<activeSessions, queue, promise, nextSessionId>>]_vars

\* C33: nothing starts after dispose.  Once the manager is disposed, no
\* step creates a local session and no step starts a bridge, a call that
\* was at its await when dispose() ran included.
C33_NothingAfterDispose ==
    [][disposed
         => /\ activeSessions' \subseteq activeSessions
            /\ nextSessionId' = nextSessionId
            /\ bridge' => bridge]_vars

\* The input delivered as one chunk.
OneChunk ==
    handleInput(<<>>, dataOf(transport, IF transport = "socket"
                                        THEN encodeUtf8(sent) ELSE sent))

\* C34: chunking independence of line framing.  When the whole input has
\* been delivered, the lines the session has parsed and the partial line
\* left in its buffer are those of the same input delivered as one chunk,
\* however it was cut into chunks.
C34_ChunkingIndependence ==
    wire = <<>> => /\ parsed = OneChunk.parsed
                   /\ buffer = OneChunk.buffer

\* The step is the interrupt character arriving at open local session i.
Interrupts(i) ==
    /\ last'.op = "interrupt"
    /\ term[i] = "open" /\ term'[i] = "closed"

\* C35: interrupt closes a local session.  When an open local session
\* receives the interrupt character, in that step the session is closed and
\* leaves the active set, the oldest queued local request (if any) is taken
\* from the head of the queue and startSession is re-attempted for it (it
\* gets the new session, or is queued again at the tail), and afterwards
\* the bridge has re-checked its queue: no connection is left queued below
\* the cap.  No line is dispatched on a local session after it has closed.
C35_InterruptCloses ==
    /\ [][\A i \in SessionIds :
            Interrupts(i)
                => /\ i \notin activeSessions'
                   /\ queue # <<>>
                        => \/ /\ promise'[Head(queue)] = Resolved(nextSessionId)
                              /\ nextSessionId \in activeSessions'
                              /\ queue' = Tail(queue)
                           \/ /\ promise'[Head(queue)] = Pending
                              /\ queue' = Append(Tail(queue), Head(queue))
                   /\ queue = <<>> => queue' = <<>> /\ activeSessions' = activeSessions \ {i}
                   /\ (bridge' /\ queued' # <<>>)
                        => Cardinality(activeSessions') + active' >= EffectiveCap(sessionCap')]_vars
    /\ []((last.op \in {"request", "invalidJson"} /\ last.chan.kind = "local")
            => term[last.chan.n] = "open")

\* The interrupt closed session 1 at a cap of 1 and the oldest queued
\* request got session 2, a connection still waiting in the bridge queue.
C35_Witness ==
    /\ last.op = "interrupt"
    /\ term[1] = "closed" /\ activeSessions = {2}
    /\ \E h \in HandleIds : promise[h] = Resolved(2)
    /\ queued # <<>>

\* The interrupt closed the only session and the queued connection was
\* promoted.
C35_WitnessPromoted ==
    /\ last.op = "interrupt"
    /\ activeSessions = {} /\ queue = <<>>
    /\ \E s \in SocketIds : sock[s].st = "session" /\ sock[s].notices > 0

\* The promise of startSession() call h has been settled.
Settled(h) == promise[h].st \in {"session", "undefined"}

\* The promise of call h was returned from the queueing branch and is
\* still pending.
PendingHandle(h) == InSeq(arrivals, h) /\ promise[h] = Pending

\* C36: pending-handle delivery.  A settled promise never changes again;
\* no session is delivered to two promises; a session created when a close
\* promotes a queued request is delivered to the promise at the head of
\* the queue and to no other; and every promise that is pending when
\* stopAll() is invoked (by a caller or by dispose) is settled by it, so
\* none of them stays pending.
C36_PendingDelivery ==
    /\ [][\A h \in HandleIds : Settled(h) => promise'[h] = promise[h]]_vars
    /\ [](\A g, h \in HandleIds :
            (g # h /\ promise[g].st = "session" /\ promise[h].st = "session")
                => promise[g].session # promise[h].session)
    /\ [][\A i \in SessionIds :
            (last'.op = "close" /\ i \notin activeSessions /\ i \in activeSessions')
                => /\ queue # <<>>
                   /\ PendingHandle(Head(queue))
                   /\ promise'[Head(queue)] = Resolved(i)
                   /\ \A h \in HandleIds \ {Head(queue)} : promise'[h] = promise[h]]_vars
    /\ [][last'.op \in {"stopAll", "dispose"}
            => \A h \in HandleIds : PendingHandle(h) => Settled(h)']_vars

\* stopAll settled a queued promise after an earlier close had delivered
\* session 2 to the promise that was queued first.
C36_Witness ==
    /\ last.op = "stopAll"
    /\ \E g, h \in HandleIds :
          /\ InSeq(arrivals, g) /\ promise[g] = Resolved(2)
          /\ InSeq(arrivals, h) /\ promise[h] = Cancelled

====
